---- MODULE Spec2Model ----
(***************************************************************************)
(* Loan calculator backend (src/app.py): the two JSON endpoints            *)
(* /api/validate and /api/calculate, with the pure functions validate_cnic, *)
(* validate_loan and calculate_emi they call.                              *)
(*                                                                         *)
(* A Python float is an IEEE-754 double: a sign, a mantissa and a binary   *)
(* exponent, or an infinity, or a NaN; every operation rounds its exact    *)
(* result to the nearest double, a tie going to the even mantissa.  A      *)
(* Python int has no bound.  Mantissas and ints are natural numbers kept   *)
(* as sequences of 15-bit limbs, the least significant first.  A string    *)
(* is the sequence of its Unicode code points.  An operation gives a value *)
(* or raises an exception, which carries its class and its message;        *)
(* math.pow, which the C library does not always round to the nearest      *)
(* double, gives a set of outcomes, and so does everything computed from   *)
(* it.                                                                     *)
(***************************************************************************)
EXTENDS Integers, Sequences, FiniteSets

VARIABLES req, resp, emiCalls

vars == <<req, resp, emiCalls>>

(***************************************************************************)
(* Bounds of the explored inputs.                                          *)
(***************************************************************************)
MaxAge == 71
MaxStudentAge == 51
MaxTenure == 14

(***************************************************************************)
(* Natural numbers of any size: <<l1, l2, ...>> is l1 + l2 * 2^15 + ...,    *)
(* the last limb not 0; <<>> is 0.                                         *)
(***************************************************************************)
P2(k) == 2 ^ k
Base == 2 ^ 15

Abs(x) == IF x < 0 THEN -x ELSE x
Min(a, b) == IF a < b THEN a ELSE b
Max(a, b) == IF a < b THEN b ELSE a
Greatest(S) == CHOOSE x \in S : \A y \in S : y <= x
Least(S) == CHOOSE x \in S : \A y \in S : x <= y

BLimb(a, i) == IF i >= 1 /\ i <= Len(a) THEN a[i] ELSE 0

BNorm(a) ==
    LET nz == {i \in 1..Len(a) : a[i] # 0}
    IN  IF nz = {} THEN <<>> ELSE SubSeq(a, 1, Greatest(nz))

\* A natural number below 2^31, as limbs and back.
BOfNat(n) == BNorm(<<n % Base, (n \div Base) % Base, n \div (Base * Base)>>)
BToNat(a) == BLimb(a, 1) + Base * BLimb(a, 2) + Base * Base * BLimb(a, 3)

\* -1, 0 or 1 as a < b, a = b or a > b.
BCmp(a, b) ==
    LET At(i) == IF a[i] < b[i] THEN -1 ELSE 1
        Differ(D) == IF D = {} THEN 0 ELSE At(Greatest(D))
    IN  IF Len(a) # Len(b) THEN (IF Len(a) < Len(b) THEN -1 ELSE 1)
        ELSE Differ({i \in 1..Len(a) : a[i] # b[i]})

\* The limbs of a function on 1..n, each computed once.
Limbs(f, n) == SubSeq(f, 1, n)

\* The limbs s, each below 2 Base - 1, with the carries taken over: limb i
\* takes one when some lower limb overflows and every limb between is full.
Carried(s) ==
    BNorm([i \in 1..Len(s) |->
             (s[i] + (IF \E j \in 1..(i - 1) :
                           s[j] >= Base /\ \A k \in (j + 1)..(i - 1) : s[k] = Base - 1
                      THEN 1 ELSE 0)) % Base])

\* The limbs d, each above -Base, with the borrows taken over.
Borrowed(d) ==
    BNorm([i \in 1..Len(d) |->
             (d[i] - (IF \E j \in 1..(i - 1) :
                           d[j] < 0 /\ \A k \in (j + 1)..(i - 1) : d[k] = 0
                      THEN 1 ELSE 0) + Base) % Base])

BAdd(a, b) ==
    LET Sums(n) == Limbs([i \in 1..n |-> BLimb(a, i) + BLimb(b, i)], n)
    IN  IF a = <<>> THEN b
        ELSE IF b = <<>> THEN a
        ELSE Carried(Sums(Max(Len(a), Len(b)) + 1))

\* a - b for a >= b.
BSub(a, b) ==
    IF b = <<>> THEN a
    ELSE Borrowed(Limbs([i \in 1..Len(a) |-> a[i] - BLimb(b, i)], Len(a)))

\* a * 2^(15 k).
BShlLimbs(a, k) == IF a = <<>> THEN <<>> ELSE [i \in 1..k |-> 0] \o a

\* a * d for 0 <= d <= 2^15: limb i holds the low part of its product and
\* the high part of the product below.
BMulSmall(a, d) ==
    LET Parts(n) ==
            Limbs([i \in 1..n |->
                     ((BLimb(a, i) * d) % Base) + ((BLimb(a, i - 1) * d) \div Base)], n)
    IN  IF a = <<>> THEN <<>> ELSE Carried(Parts(Len(a) + 1))

\* The sum over i in lo..hi of the low (part = 0) or the high (part = 1)
\* 15 bits of a[i] * b[k + 1 - i].
RECURSIVE ColumnSum(_, _, _, _, _, _)
ColumnSum(a, b, k, part, lo, hi) ==
    IF lo > hi THEN 0
    ELSE IF lo = hi
    THEN (IF part = 0 THEN (a[lo] * b[k + 1 - lo]) % Base
          ELSE (a[lo] * b[k + 1 - lo]) \div Base)
    ELSE ColumnSum(a, b, k, part, lo, (lo + hi) \div 2)
         + ColumnSum(a, b, k, part, (lo + hi) \div 2 + 1, hi)

\* Column k of a * b holds the low parts of the products of its limbs and
\* the high parts of the column below.
Column(a, b, k) ==
    ColumnSum(a, b, k, 0, Max(1, k + 1 - Len(b)), Min(k, Len(a)))
    + ColumnSum(a, b, k - 1, 1, Max(1, k - Len(b)), Min(k - 1, Len(a)))

\* Each column passes what it has above 15 bits on to the next.
Passed(t) ==
    Limbs([k \in 1..Len(t) |->
             (t[k] % Base) + (IF k > 1 THEN t[k - 1] \div Base ELSE 0)], Len(t))

\* a * b, for fewer than 2^13 limbs.
BMul(a, b) ==
    IF a = <<>> \/ b = <<>> THEN <<>>
    ELSE Carried(Passed(Limbs([k \in 1..(Len(a) + Len(b)) |-> Column(a, b, k)],
                              Len(a) + Len(b))))

\* a * 2^k and floor(a / 2^k).
BShl(a, k) == BShlLimbs(BMulSmall(a, P2(k % 15)), k \div 15)

BShr(a, k) ==
    LET Bits(t, r) ==
            BNorm([i \in 1..Len(t) |->
                     t[i] \div P2(r) + (BLimb(t, i + 1) % P2(r)) * P2(15 - r)])
    IN  IF a = <<>> THEN <<>> ELSE Bits(SubSeq(a, k \div 15 + 1, Len(a)), k % 15)

\* The number of bits of a, bit i of a (bit 0 the lowest), and the number of
\* 0 bits below the lowest 1 bit of a # 0.
BBitLen(a) ==
    IF a = <<>> THEN 0
    ELSE 15 * (Len(a) - 1)
         + (CHOOSE k \in 1..15 : P2(k - 1) <= a[Len(a)] /\ a[Len(a)] < P2(k))
BBit(a, i) == (BLimb(a, i \div 15 + 1) \div P2(i % 15)) % 2
BTz(a) ==
    LET In(j) == 15 * (j - 1) + Least({k \in 0..14 : (a[j] \div P2(k)) % 2 = 1})
    IN  In(Least({i \in 1..Len(a) : a[i] # 0}))
BOdd(a) == a # <<>> /\ a[1] % 2 = 1

\* Division of a by d, 1 <= d < 2^15, limb by limb from the top: st holds
\* the next limb i, the remainder r so far and the quotient limbs q so far.
RECURSIVE BDivSmallLoop(_, _, _)
BDivSmallLoop(a, d, st) ==
    IF st.i = 0 THEN st
    ELSE BDivSmallLoop(a, d,
            [i |-> st.i - 1,
             r |-> (st.r * Base + a[st.i]) % d,
             q |-> <<(st.r * Base + a[st.i]) \div d>> \o st.q])

BDivSmall(a, d) ==
    LET Done(st) == [q |-> BNorm(st.q), r |-> BOfNat(st.r)]
    IN  Done(BDivSmallLoop(a, d, [i |-> Len(a), r |-> 0, q |-> <<>>]))

\* The greatest digit d in lo..hi with d * b <= r (lo * b <= r is given).
RECURSIVE BDigit(_, _, _, _)
BDigit(r, b, lo, hi) ==
    IF lo >= hi THEN lo
    ELSE IF BCmp(BMulSmall(b, (lo + hi + 1) \div 2), r) <= 0
    THEN BDigit(r, b, (lo + hi + 1) \div 2, hi)
    ELSE BDigit(r, b, lo, (lo + hi + 1) \div 2 - 1)

\* The two top limbs of the part under division.
BDivTop(cur, b) == BLimb(cur, Len(b) + 1) * Base + BLimb(cur, Len(b))

\* The digit d taken from the part under division.
BDivTaken(b, st, cur, d) ==
    [i |-> st.i - 1, r |-> BSub(cur, BMulSmall(b, d)), q |-> <<d>> \o st.q]

\* The digit lies between the two estimates made from the top limbs.
BDivPart(b, st, cur) ==
    BDivTaken(b, st, cur,
              BDigit(cur, b, BDivTop(cur, b) \div (b[Len(b)] + 1),
                     Min(Base - 1, BDivTop(cur, b) \div b[Len(b)])))

\* One step of the long division by b, whose top limb is at least 2^14.
BDivStep(a, b, st) == BDivPart(b, st, BNorm(<<a[st.i]>> \o st.r))

RECURSIVE BDivLoop(_, _, _)
BDivLoop(a, b, st) ==
    IF st.i = 0 THEN st ELSE BDivLoop(a, b, BDivStep(a, b, st))

\* The long division of sa by sb, both shifted by s bits.
BDivLong(sa, sb) ==
    BDivLoop(sa, sb, [i |-> Max(0, Len(sa) - Len(sb) + 1),
                      r |-> SubSeq(sa, Max(0, Len(sa) - Len(sb) + 1) + 1, Len(sa)),
                      q |-> <<>>])

BDivDone(st, s) == [q |-> BNorm(st.q), r |-> BShr(st.r, s)]

BDivShifted(a, b, s) == BDivDone(BDivLong(BShl(a, s), BShl(b, s)), s)

\* Quotient and remainder of a by b # 0.
BDivMod(a, b) ==
    IF Len(b) = 1 THEN BDivSmall(a, b[1])
    ELSE BDivShifted(a, b, 15 * Len(b) - BBitLen(b))

\* 10^k.
RECURSIVE BPow10(_)
BPow10(k) ==
    IF k = 0 THEN <<1>>
    ELSE IF k % 2 = 1 THEN BMulSmall(BPow10(k - 1), 10)
    ELSE LET h == BPow10(k \div 2) IN BMul(h, h)

(***************************************************************************)
(* Python numbers.  A finite float is (-1)^neg * m * 2^e with m odd, or m  *)
(* and e both 0; an int is (-1)^neg * m.                                   *)
(***************************************************************************)
Fin(neg, m, e) == [k |-> "fin", neg |-> neg, m |-> m, e |-> e]
Zero(neg) == Fin(neg, <<>>, 0)
Inf(neg) == [k |-> "inf", neg |-> neg, m |-> <<>>, e |-> 0]
NaN == [k |-> "nan", neg |-> FALSE, m |-> <<>>, e |-> 0]
IntV(neg, m) == [k |-> "int", neg |-> neg /\ m # <<>>, m |-> m, e |-> 0]

\* The int of a small integer.
PyInt(n) == IntV(n < 0, BOfNat(Abs(n)))

\* A message: a text and the characters formatted into it, as code points.
Msg(text, arg) == [text |-> text, arg |-> arg]

\* An exception: its class and its str(e); NoExc where none is raised.
Exc(cls, text, arg) == [cls |-> cls, msg |-> Msg(text, arg)]
NoExc == Exc("", "", <<>>)

\* The outcome of an operation: a value, or an exception.
Ok(v) == [ok |-> TRUE, v |-> v, exc |-> NoExc]
Raise(e) == [ok |-> FALSE, v |-> NaN, exc |-> e]

\* float(n) of an int beyond every double, and x / 0.0.
IntTooLarge == Exc("OverflowError", "int too large to convert to float", <<>>)
DivisionByZero == Exc("ZeroDivisionError", "float division by zero", <<>>)

IsZero(x) == x.k \in {"fin", "int"} /\ x.m = <<>>

\* m * 2^e with the mantissa made odd.
Canon(neg, m, e) ==
    IF m = <<>> THEN Zero(neg) ELSE Fin(neg, BShr(m, BTz(m)), e + BTz(m))

\* f is m / 2^sh without its fraction: the whole number nearest to
\* m / 2^sh, a tie going to the even one.
BHalfEven(m, sh, f) ==
    IF BBit(m, sh - 1) = 1 /\ (BTz(m) < sh - 1 \/ BOdd(f)) THEN BAdd(f, <<1>>) ELSE f

BShrEven(m, sh) == BHalfEven(m, sh, BShr(m, sh))

\* r * 2^q as a double, r of 53 bits at most: an infinity from 2^1024 on.
Packed(neg, r, q) == IF BBitLen(r) + q > 1024 THEN Inf(neg) ELSE Canon(neg, r, q)

\* m * 2^e with its last sh bits rounded away.
RoundCut(neg, m, e, sh) ==
    Packed(neg, IF sh <= 0 THEN m ELSE BShrEven(m, sh), IF sh <= 0 THEN e ELSE e + sh)

\* The double nearest to m * 2^e, a tie going to the even mantissa: 53 bits
\* of mantissa, fewer below 2^-1022, and an infinity from 2^1024 on.
RoundNearest(neg, m, e) ==
    IF m = <<>> THEN Zero(neg)
    ELSE RoundCut(neg, m, e, Max(e + BBitLen(m) - 53, -1074) - e)

\* The same for a value strictly between m * 2^e and (m + 1) * 2^e when
\* `sticky` holds, m having 54 bits or more.
RoundSticky(neg, m, e, sticky) ==
    RoundNearest(neg, IF sticky THEN BAdd(BShl(m, 1), <<1>>) ELSE m,
                 IF sticky THEN e - 1 ELSE e)

\* The double nearest to (q + r / d) * 2^e, for the quotient q of 54 bits
\* or more and the remainder r of a division.
RoundQuotient(neg, qr, e) == RoundSticky(neg, qr.q, e, qr.r # <<>>)

\* float(n) of an int.
FloatOfInt(n) ==
    LET Finite(r) == IF r.k = "inf" THEN Raise(IntTooLarge) ELSE Ok(r)
    IN  Finite(RoundNearest(n.neg, n.m, 0))

\* Comparison of two numbers, none a NaN: -1, 0 or 1.  Python compares an
\* int and a float by their exact values.
Sgn(x) == IF IsZero(x) THEN 0 ELSE IF x.neg THEN -1 ELSE 1

MagCmp(x, y) ==
    IF x.k = "inf" \/ y.k = "inf"
    THEN (IF x.k = y.k THEN 0 ELSE IF x.k = "inf" THEN 1 ELSE -1)
    ELSE IF x.e + BBitLen(x.m) # y.e + BBitLen(y.m)
    THEN (IF x.e + BBitLen(x.m) < y.e + BBitLen(y.m) THEN -1 ELSE 1)
    ELSE BCmp(BShl(x.m, x.e - Min(x.e, y.e)), BShl(y.m, y.e - Min(x.e, y.e)))

NumCmp(x, y) ==
    IF Sgn(x) # Sgn(y) THEN (IF Sgn(x) < Sgn(y) THEN -1 ELSE 1)
    ELSE IF Sgn(x) = 0 THEN 0
    ELSE Sgn(x) * MagCmp(x, y)

Comparable(x, y) == x.k # "nan" /\ y.k # "nan"
Lt(x, y) == Comparable(x, y) /\ NumCmp(x, y) < 0
Le(x, y) == Comparable(x, y) /\ NumCmp(x, y) <= 0
Gt(x, y) == Comparable(x, y) /\ NumCmp(x, y) > 0
Eq(x, y) == Comparable(x, y) /\ NumCmp(x, y) = 0

FloatNeg(x) == IF x.k = "nan" THEN NaN ELSE [x EXCEPT !.neg = ~x.neg]

\* x * y on floats.
FloatMul(x, y) ==
    IF x.k = "nan" \/ y.k = "nan" THEN NaN
    ELSE IF x.k = "inf" \/ y.k = "inf"
    THEN (IF IsZero(x) \/ IsZero(y) THEN NaN ELSE Inf(x.neg # y.neg))
    ELSE RoundNearest(x.neg # y.neg, BMul(x.m, y.m), x.e + y.e)

\* The exact sum of (-1)^x.neg * mx and (-1)^y.neg * y.m: sign and magnitude.
SignedSum(x, y, mx) ==
    IF x.neg = y.neg THEN [neg |-> x.neg, m |-> BAdd(mx, y.m)]
    ELSE IF BCmp(mx, y.m) >= 0 THEN [neg |-> x.neg, m |-> BSub(mx, y.m)]
    ELSE [neg |-> y.neg, m |-> BSub(y.m, mx)]

\* An exact sum of 0 is +0.0.
RoundSum(sum, e) ==
    IF sum.m = <<>> THEN Zero(FALSE) ELSE RoundNearest(sum.neg, sum.m, e)

\* The sum of two finite floats, none 0, x with the higher last bit.  A y
\* below 2^-64 of that bit cannot move x to another double.
FloatAddFinite(x, y) ==
    IF x.e - (y.e + BBitLen(y.m)) > 64 THEN x
    ELSE RoundSum(SignedSum(x, y, BShl(x.m, x.e - y.e)), y.e)

\* x + y on floats.
FloatAdd(x, y) ==
    IF x.k = "nan" \/ y.k = "nan" THEN NaN
    ELSE IF x.k = "inf" /\ y.k = "inf" THEN (IF x.neg = y.neg THEN x ELSE NaN)
    ELSE IF x.k = "inf" THEN x
    ELSE IF y.k = "inf" THEN y
    ELSE IF IsZero(x) /\ IsZero(y) THEN Zero(x.neg /\ y.neg)
    ELSE IF IsZero(x) THEN y
    ELSE IF IsZero(y) THEN x
    ELSE FloatAddFinite(IF x.e >= y.e THEN x ELSE y, IF x.e >= y.e THEN y ELSE x)

\* x - y on floats.
FloatSub(x, y) == FloatAdd(x, FloatNeg(y))

\* x / y on floats: Python raises on a zero divisor.
FloatDiv(x, y) ==
    IF IsZero(y) THEN Raise(DivisionByZero)
    ELSE IF x.k = "nan" \/ y.k = "nan" THEN Ok(NaN)
    ELSE IF x.k = "inf" THEN Ok(IF y.k = "inf" THEN NaN ELSE Inf(x.neg # y.neg))
    ELSE IF y.k = "inf" \/ IsZero(x) THEN Ok(Zero(x.neg # y.neg))
    ELSE Ok(RoundQuotient(x.neg # y.neg,
                          BDivMod(BShl(x.m, Max(0, 66 + BBitLen(y.m) - BBitLen(x.m))),
                                  y.m),
                          x.e - y.e - Max(0, 66 + BBitLen(y.m) - BBitLen(x.m))))

\* m * 2^(e + 2) to the nearest whole number, a tie going to the even one.
Hundredths(m, e) == IF e >= -2 THEN BShl(m, e + 2) ELSE BShrEven(m, -(e + 2))

\* The whole number of hundredths nearest to the exact value of a finite
\* float, a tie going to the even one: its magnitude.
Cents(x) == Hundredths(BMulSmall(x.m, 25), x.e)

\* The double nearest to n / 100, by a quotient of 66 bits or more.
CentsToFloat(neg, n) ==
    RoundQuotient(neg, BDivSmall(BShl(n, Max(0, 72 - BBitLen(n))), 25),
                  -2 - Max(0, 72 - BBitLen(n)))

\* round(x, 2): the decimal with 2 places nearest to the exact value of x,
\* and then the double nearest to that decimal.  A float without a
\* fraction below 1/4, an infinity and a NaN are returned as they are, and
\* so is an int.
round2(x) ==
    IF x.k # "fin" \/ x.e >= -2 THEN x ELSE CentsToFloat(x.neg, Cents(x))

\* max(0, x): the first of the two unless the second is greater.
Max0(x) == IF Gt(x, PyInt(0)) THEN x ELSE PyInt(0)


(***************************************************************************)
(* math.pow(x, y), as calculate_emi calls it: x is 1 + monthly_rate, so    *)
(* 1 <= x or x is a NaN, and y is the float of a positive int.  The power  *)
(* is followed between a lower and an upper bound that keep PowGuard bits  *)
(* more than the exponent has; the C library's pow is accurate to a little *)
(* over half a unit in the last place, so it returns the double nearest to *)
(* the exact power, or, when the power is within 2^-PowSlack of the middle *)
(* of two doubles, either of them.                                         *)
(***************************************************************************)
PowGuard == 64
PowSlack == 56

One == Fin(FALSE, <<1>>, 0)

Bound(m, e) == [m |-> m, e |-> e]

\* A bound cut to `bits` bits, downwards and upwards.
Lower(b, bits) ==
    IF BBitLen(b.m) > bits
    THEN Bound(BShr(b.m, BBitLen(b.m) - bits), b.e + BBitLen(b.m) - bits)
    ELSE b

Upper(b, bits) ==
    IF BBitLen(b.m) > bits
    THEN Bound(BAdd(BShr(b.m, BBitLen(b.m) - bits), <<1>>), b.e + BBitLen(b.m) - bits)
    ELSE b

BoundMul(a, b) == Bound(BMul(a.m, b.m), a.e + b.e)

\* The bound b times x where bit i of n is set.
PowTimes(x, n, i, b) == IF BBit(n, i) = 1 THEN BoundMul(b, x) ELSE b

\* One bit of the exponent n, from its top: the square of the power so far,
\* times x where the bit is set.
PowStep(x, n, st) ==
    [i |-> st.i - 1,
     lo |-> Lower(PowTimes(x, n, st.i, BoundMul(st.lo, st.lo)), BBitLen(n) + PowGuard),
     hi |-> Upper(PowTimes(x, n, st.i, BoundMul(st.hi, st.hi)), BBitLen(n) + PowGuard)]

RECURSIVE PowLoop(_, _, _)
PowLoop(x, n, st) ==
    IF st.i < 0 \/ st.lo.e + BBitLen(st.lo.m) > 1100 THEN st ELSE PowLoop(x, n, PowStep(x, n, st))

\* math.pow raises OverflowError where the C function overflows.
MathRange == Exc("OverflowError", "math range error", <<>>)
PowResult(v) == IF v.k = "inf" THEN Raise(MathRange) ELSE Ok(v)

\* The ends of the band around the power that decides the double.
PowNear(st) ==
    {Bound(BSub(BShl(st.lo.m, PowSlack), st.lo.m), st.lo.e - PowSlack),
     Bound(BAdd(BShl(st.hi.m, PowSlack), st.hi.m), st.hi.e - PowSlack)}

PowOutcomes(st) == {PowResult(RoundNearest(FALSE, c.m, c.e)) : c \in PowNear(st)}

\* b to the power n >= 1.
Power(b, n) == PowOutcomes(PowLoop(b, n, [i |-> BBitLen(n) - 2, lo |-> b, hi |-> b]))

\* The outcomes of math.pow(x, y).  A power of x > 1 with 2^62 factors or
\* more is beyond every double.
math_pow(x, y) ==
    IF IsZero(y) \/ x = One THEN {Ok(One)}
    ELSE IF x.k = "nan" THEN {Ok(NaN)}
    ELSE IF y.e + BBitLen(y.m) > 62 THEN {Raise(MathRange)}
    ELSE Power(Bound(x.m, x.e), BShl(y.m, y.e))


(***************************************************************************)
(* calculate_emi.  An operand that is an int is converted to a float       *)
(* first, which raises OverflowError for an int beyond every double.       *)
(***************************************************************************)
\* The float of a small integer.
Float(n) == FloatOfInt(PyInt(n)).v

\* A small int as an integer of the model.
IntToNat(x) == IF x.neg THEN -BToNat(x.m) ELSE BToNat(x.m)

\* Line 50.
MonthlyRate(annual_rate) ==
    FloatDiv(FloatDiv(annual_rate, Float(12)).v, Float(100)).v

\* Lines 55-57, with the value or the exception of math.pow.
Compound(principal, monthly_rate, power) ==
    IF ~power.ok THEN Raise(power.exc)
    ELSE LET numerator == FloatMul(FloatMul(principal, monthly_rate), power.v)
             denominator == FloatSub(power.v, One)
         IN  FloatDiv(numerator, denominator)

\* Lines 52-57, with the float n of tenure_months or the exception of the
\* conversion.
EmiOver(principal, monthly_rate, n) ==
    IF ~n.ok THEN {Raise(n.exc)}
    ELSE IF Eq(monthly_rate, PyInt(0)) THEN {FloatDiv(principal, n.v)}
    ELSE {Compound(principal, monthly_rate, power) :
             power \in math_pow(FloatAdd(One, monthly_rate), n.v)}

\* Lines 52-57: the outcomes of monthly_emi, a value or an exception.
MonthlyEmi(principal, monthly_rate, tenure_months) ==
    EmiOver(principal, monthly_rate, FloatOfInt(tenure_months))

\* Lines 71-77: one row of the schedule.
ScheduleRow(month, monthly_emi, principal_payment, interest_payment, remaining_balance) ==
    [month |-> month,
     emi |-> round2(monthly_emi),
     principal |-> round2(principal_payment),
     interest |-> round2(interest_payment),
     balance |-> round2(Max0(remaining_balance))]

\* Lines 71-77: the state of the loop after a month, its row appended.
RowAdded(st, monthly_emi, interest_payment, principal_payment, remaining_balance) ==
    [month |-> st.month + 1,
     remaining_balance |-> remaining_balance,
     schedule |-> Append(st.schedule,
                         ScheduleRow(st.month, monthly_emi, principal_payment,
                                     interest_payment, remaining_balance))]

\* Mutant: the payment is added to the balance.
RemainingAdds(remaining_balance, principal_payment) ==
    FloatAdd(remaining_balance, principal_payment)

\* Line 69.
Remaining(remaining_balance, principal_payment) ==
    FloatSub(remaining_balance, principal_payment)

\* Lines 69-77, with the two payments of the month.
Paid(st, monthly_emi, interest_payment, principal_payment) ==
    RowAdded(st, monthly_emi, interest_payment, principal_payment,
             Remaining(st.remaining_balance, principal_payment))

\* Lines 68-77, with the interest of the month.
Charged(st, monthly_emi, interest_payment) ==
    Paid(st, monthly_emi, interest_payment, FloatSub(monthly_emi, interest_payment))

\* Lines 67-77: the body of the loop on the state of the loop, its month,
\* the balance and the rows so far.
ScheduleStep(st, monthly_emi, monthly_rate) ==
    Charged(st, monthly_emi, FloatMul(st.remaining_balance, monthly_rate))

\* Lines 66-77: the loop, up to range's exclusive `stop`.
RECURSIVE ScheduleLoop(_, _, _, _)
ScheduleLoop(st, stop, monthly_emi, monthly_rate) ==
    IF st.month >= stop THEN st.schedule
    ELSE ScheduleLoop(ScheduleStep(st, monthly_emi, monthly_rate), stop,
                      monthly_emi, monthly_rate)

\* Mutant: the schedule is cut at 13 months.
ScheduleStopThirteen(tenure_months) ==
    IF Le(PyInt(13), tenure_months) THEN 14 ELSE IntToNat(tenure_months) + 1

\* Line 66: min(tenure_months + 1, 13).
ScheduleStop(tenure_months) ==
    IF Le(PyInt(12), tenure_months) THEN 13 ELSE IntToNat(tenure_months) + 1

\* Line 59.
TotalPayable(monthly_emi, tenure_months) ==
    FloatMul(monthly_emi, FloatOfInt(tenure_months).v)

\* Lines 60-85, with the value of monthly_emi and the total payable.
Totals(principal, monthly_rate, tenure_months, monthly_emi, total_payable) ==
    [ok |-> TRUE,
     v |-> [monthlyEMI |-> round2(monthly_emi),
            totalInterest |-> round2(FloatSub(total_payable, principal)),
            totalPayable |-> round2(total_payable),
            schedule |-> ScheduleLoop([month |-> 1, remaining_balance |-> principal,
                                       schedule |-> <<>>],
                                      ScheduleStop(tenure_months), monthly_emi,
                                      monthly_rate),
            tenure |-> tenure_months],
     exc |-> NoExc]

\* Lines 59-85, with the value or the exception of monthly_emi.
EmiResult(principal, monthly_rate, tenure_months, monthly_emi) ==
    IF ~monthly_emi.ok THEN [ok |-> FALSE, v |-> <<>>, exc |-> monthly_emi.exc]
    ELSE Totals(principal, monthly_rate, tenure_months, monthly_emi.v,
                TotalPayable(monthly_emi.v, tenure_months))

\* Lines 52-85, with the monthly rate.
EmiOutcomes(principal, monthly_rate, tenure_months) ==
    {EmiResult(principal, monthly_rate, tenure_months, monthly_emi) :
        monthly_emi \in MonthlyEmi(principal, monthly_rate, tenure_months)}

\* The outcomes of a call: the result, or the exception that escapes.
calculate_emi(principal, annual_rate, tenure_months) ==
    EmiOutcomes(principal, MonthlyRate(annual_rate), tenure_months)


(***************************************************************************)
(* The values of a request body after json.loads: a field that is missing  *)
(* from the object is Absent; None, a bool, a number (an int or a float;   *)
(* Flask reads NaN and Infinity too), a string, or a list.                 *)
(***************************************************************************)
Absent == [t |-> "absent", num |-> PyInt(0), s |-> <<>>]
None == [t |-> "none", num |-> PyInt(0), s |-> <<>>]
Bool(b) == [t |-> "bool", num |-> PyInt(IF b THEN 1 ELSE 0), s |-> <<>>]
Num(x) == [t |-> "num", num |-> x, s |-> <<>>]
Str(s) == [t |-> "str", num |-> PyInt(0), s |-> s]
Other == [t |-> "other", num |-> PyInt(0), s |-> <<>>]

\* data.get(key, default): the default only when the key is missing.
Get(data, key, default) == IF data[key] = Absent THEN default ELSE data[key]

(***************************************************************************)
(* Characters.  A digit, for int(), float() and the \d of a str pattern,   *)
(* is any decimal digit of Unicode: 66 runs of ten code points, from the   *)
(* digit 0 of a script to its digit 9.                                     *)
(***************************************************************************)
DigitStarts ==
    {48, 1632, 1776, 1984, 2406, 2534, 2662, 2790, 2918, 3046, 3174, 3302,
     3430, 3558, 3664, 3792, 3872, 4160, 4240, 6112, 6160, 6470, 6608, 6784,
     6800, 6992, 7088, 7232, 7248, 42528, 43216, 43264, 43472, 43504, 43600,
     44016, 65296, 66720, 68912, 69734, 69872, 69942, 70096, 70384, 70736,
     70864, 71248, 71360, 71472, 71904, 72016, 72784, 73040, 73120, 92768,
     92864, 93008, 120782, 120792, 120802, 120812, 120822, 123200, 123632,
     125264, 130032}

Digits == UNION {z..(z + 9) : z \in DigitStarts}
IsDigit(c) == c \in Digits
DigitVal(c) == c - Greatest({z \in DigitStarts : z <= c})

\* The white space int() and float() strip: tab to carriage return, the
\* space, and the spaces and line separators of Unicode.
Whitespace ==
    (9..13) \cup {32, 133, 160, 5760} \cup (8192..8202)
        \cup {8232, 8233, 8239, 8287, 12288}

Plus == 43
Minus == 45
Dot == 46
Underscore == 95
Newline == 10
Hyphen == 45

Strip(s) ==
    LET Kept(keep) ==
            IF keep = {} THEN <<>> ELSE SubSeq(s, Least(keep), Greatest(keep))
    IN  Kept({i \in 1..Len(s) : s[i] \notin Whitespace})

(***************************************************************************)
(* repr(s) of a string, which the messages of int() and float() hold: in   *)
(* single quotes, or in double quotes when s holds a single quote and no   *)
(* double quote; the quote and the backslash escaped, tab, newline and     *)
(* return as \t, \n, \r, and every other character that is not printable  *)
(* as \xNN, \uNNNN or \UNNNNNNNN.  NonPrintable is the runs of code points *)
(* from 128 on that str.isprintable() refuses (Unicode 14.0).              *)
(***************************************************************************)
NonPrintable ==
    {<<128, 160>>, <<173, 173>>, <<888, 889>>, <<896, 899>>, <<907, 907>>,
     <<909, 909>>, <<930, 930>>, <<1328, 1328>>, <<1367, 1368>>,
     <<1419, 1420>>, <<1424, 1424>>, <<1480, 1487>>, <<1515, 1518>>,
     <<1525, 1541>>, <<1564, 1564>>, <<1757, 1757>>, <<1806, 1807>>,
     <<1867, 1868>>, <<1970, 1983>>, <<2043, 2044>>, <<2094, 2095>>,
     <<2111, 2111>>, <<2140, 2141>>, <<2143, 2143>>, <<2155, 2159>>,
     <<2191, 2199>>, <<2274, 2274>>, <<2436, 2436>>, <<2445, 2446>>,
     <<2449, 2450>>, <<2473, 2473>>, <<2481, 2481>>, <<2483, 2485>>,
     <<2490, 2491>>, <<2501, 2502>>, <<2505, 2506>>, <<2511, 2518>>,
     <<2520, 2523>>, <<2526, 2526>>, <<2532, 2533>>, <<2559, 2560>>,
     <<2564, 2564>>, <<2571, 2574>>, <<2577, 2578>>, <<2601, 2601>>,
     <<2609, 2609>>, <<2612, 2612>>, <<2615, 2615>>, <<2618, 2619>>,
     <<2621, 2621>>, <<2627, 2630>>, <<2633, 2634>>, <<2638, 2640>>,
     <<2642, 2648>>, <<2653, 2653>>, <<2655, 2661>>, <<2679, 2688>>,
     <<2692, 2692>>, <<2702, 2702>>, <<2706, 2706>>, <<2729, 2729>>,
     <<2737, 2737>>, <<2740, 2740>>, <<2746, 2747>>, <<2758, 2758>>,
     <<2762, 2762>>, <<2766, 2767>>, <<2769, 2783>>, <<2788, 2789>>,
     <<2802, 2808>>, <<2816, 2816>>, <<2820, 2820>>, <<2829, 2830>>,
     <<2833, 2834>>, <<2857, 2857>>, <<2865, 2865>>, <<2868, 2868>>,
     <<2874, 2875>>, <<2885, 2886>>, <<2889, 2890>>, <<2894, 2900>>,
     <<2904, 2907>>, <<2910, 2910>>, <<2916, 2917>>, <<2936, 2945>>,
     <<2948, 2948>>, <<2955, 2957>>, <<2961, 2961>>, <<2966, 2968>>,
     <<2971, 2971>>, <<2973, 2973>>, <<2976, 2978>>, <<2981, 2983>>,
     <<2987, 2989>>, <<3002, 3005>>, <<3011, 3013>>, <<3017, 3017>>,
     <<3022, 3023>>, <<3025, 3030>>, <<3032, 3045>>, <<3067, 3071>>,
     <<3085, 3085>>, <<3089, 3089>>, <<3113, 3113>>, <<3130, 3131>>,
     <<3141, 3141>>, <<3145, 3145>>, <<3150, 3156>>, <<3159, 3159>>,
     <<3163, 3164>>, <<3166, 3167>>, <<3172, 3173>>, <<3184, 3190>>,
     <<3213, 3213>>, <<3217, 3217>>, <<3241, 3241>>, <<3252, 3252>>,
     <<3258, 3259>>, <<3269, 3269>>, <<3273, 3273>>, <<3278, 3284>>,
     <<3287, 3292>>, <<3295, 3295>>, <<3300, 3301>>, <<3312, 3312>>,
     <<3315, 3327>>, <<3341, 3341>>, <<3345, 3345>>, <<3397, 3397>>,
     <<3401, 3401>>, <<3408, 3411>>, <<3428, 3429>>, <<3456, 3456>>,
     <<3460, 3460>>, <<3479, 3481>>, <<3506, 3506>>, <<3516, 3516>>,
     <<3518, 3519>>, <<3527, 3529>>, <<3531, 3534>>, <<3541, 3541>>,
     <<3543, 3543>>, <<3552, 3557>>, <<3568, 3569>>, <<3573, 3584>>,
     <<3643, 3646>>, <<3676, 3712>>, <<3715, 3715>>, <<3717, 3717>>,
     <<3723, 3723>>, <<3748, 3748>>, <<3750, 3750>>, <<3774, 3775>>,
     <<3781, 3781>>, <<3783, 3783>>, <<3790, 3791>>, <<3802, 3803>>,
     <<3808, 3839>>, <<3912, 3912>>, <<3949, 3952>>, <<3992, 3992>>,
     <<4029, 4029>>, <<4045, 4045>>, <<4059, 4095>>, <<4294, 4294>>,
     <<4296, 4300>>, <<4302, 4303>>, <<4681, 4681>>, <<4686, 4687>>,
     <<4695, 4695>>, <<4697, 4697>>, <<4702, 4703>>, <<4745, 4745>>,
     <<4750, 4751>>, <<4785, 4785>>, <<4790, 4791>>, <<4799, 4799>>,
     <<4801, 4801>>, <<4806, 4807>>, <<4823, 4823>>, <<4881, 4881>>,
     <<4886, 4887>>, <<4955, 4956>>, <<4989, 4991>>, <<5018, 5023>>,
     <<5110, 5111>>, <<5118, 5119>>, <<5760, 5760>>, <<5789, 5791>>,
     <<5881, 5887>>, <<5910, 5918>>, <<5943, 5951>>, <<5972, 5983>>,
     <<5997, 5997>>, <<6001, 6001>>, <<6004, 6015>>, <<6110, 6111>>,
     <<6122, 6127>>, <<6138, 6143>>, <<6158, 6158>>, <<6170, 6175>>,
     <<6265, 6271>>, <<6315, 6319>>, <<6390, 6399>>, <<6431, 6431>>,
     <<6444, 6447>>, <<6460, 6463>>, <<6465, 6467>>, <<6510, 6511>>,
     <<6517, 6527>>, <<6572, 6575>>, <<6602, 6607>>, <<6619, 6621>>,
     <<6684, 6685>>, <<6751, 6751>>, <<6781, 6782>>, <<6794, 6799>>,
     <<6810, 6815>>, <<6830, 6831>>, <<6863, 6911>>, <<6989, 6991>>,
     <<7039, 7039>>, <<7156, 7163>>, <<7224, 7226>>, <<7242, 7244>>,
     <<7305, 7311>>, <<7355, 7356>>, <<7368, 7375>>, <<7419, 7423>>,
     <<7958, 7959>>, <<7966, 7967>>, <<8006, 8007>>, <<8014, 8015>>,
     <<8024, 8024>>, <<8026, 8026>>, <<8028, 8028>>, <<8030, 8030>>,
     <<8062, 8063>>, <<8117, 8117>>, <<8133, 8133>>, <<8148, 8149>>,
     <<8156, 8156>>, <<8176, 8177>>, <<8181, 8181>>, <<8191, 8207>>,
     <<8232, 8239>>, <<8287, 8303>>, <<8306, 8307>>, <<8335, 8335>>,
     <<8349, 8351>>, <<8385, 8399>>, <<8433, 8447>>, <<8588, 8591>>,
     <<9255, 9279>>, <<9291, 9311>>, <<11124, 11125>>, <<11158, 11158>>,
     <<11508, 11512>>, <<11558, 11558>>, <<11560, 11564>>, <<11566, 11567>>,
     <<11624, 11630>>, <<11633, 11646>>, <<11671, 11679>>, <<11687, 11687>>,
     <<11695, 11695>>, <<11703, 11703>>, <<11711, 11711>>, <<11719, 11719>>,
     <<11727, 11727>>, <<11735, 11735>>, <<11743, 11743>>, <<11870, 11903>>,
     <<11930, 11930>>, <<12020, 12031>>, <<12246, 12271>>, <<12284, 12288>>,
     <<12352, 12352>>, <<12439, 12440>>, <<12544, 12548>>, <<12592, 12592>>,
     <<12687, 12687>>, <<12772, 12783>>, <<12831, 12831>>, <<42125, 42127>>,
     <<42183, 42191>>, <<42540, 42559>>, <<42744, 42751>>, <<42955, 42959>>,
     <<42962, 42962>>, <<42964, 42964>>, <<42970, 42993>>, <<43053, 43055>>,
     <<43066, 43071>>, <<43128, 43135>>, <<43206, 43213>>, <<43226, 43231>>,
     <<43348, 43358>>, <<43389, 43391>>, <<43470, 43470>>, <<43482, 43485>>,
     <<43519, 43519>>, <<43575, 43583>>, <<43598, 43599>>, <<43610, 43611>>,
     <<43715, 43738>>, <<43767, 43776>>, <<43783, 43784>>, <<43791, 43792>>,
     <<43799, 43807>>, <<43815, 43815>>, <<43823, 43823>>, <<43884, 43887>>,
     <<44014, 44015>>, <<44026, 44031>>, <<55204, 55215>>, <<55239, 55242>>,
     <<55292, 63743>>, <<64110, 64111>>, <<64218, 64255>>, <<64263, 64274>>,
     <<64280, 64284>>, <<64311, 64311>>, <<64317, 64317>>, <<64319, 64319>>,
     <<64322, 64322>>, <<64325, 64325>>, <<64451, 64466>>, <<64912, 64913>>,
     <<64968, 64974>>, <<64976, 65007>>, <<65050, 65055>>, <<65107, 65107>>,
     <<65127, 65127>>, <<65132, 65135>>, <<65141, 65141>>, <<65277, 65280>>,
     <<65471, 65473>>, <<65480, 65481>>, <<65488, 65489>>, <<65496, 65497>>,
     <<65501, 65503>>, <<65511, 65511>>, <<65519, 65531>>, <<65534, 65535>>,
     <<65548, 65548>>, <<65575, 65575>>, <<65595, 65595>>, <<65598, 65598>>,
     <<65614, 65615>>, <<65630, 65663>>, <<65787, 65791>>, <<65795, 65798>>,
     <<65844, 65846>>, <<65935, 65935>>, <<65949, 65951>>, <<65953, 65999>>,
     <<66046, 66175>>, <<66205, 66207>>, <<66257, 66271>>, <<66300, 66303>>,
     <<66340, 66348>>, <<66379, 66383>>, <<66427, 66431>>, <<66462, 66462>>,
     <<66500, 66503>>, <<66518, 66559>>, <<66718, 66719>>, <<66730, 66735>>,
     <<66772, 66775>>, <<66812, 66815>>, <<66856, 66863>>, <<66916, 66926>>,
     <<66939, 66939>>, <<66955, 66955>>, <<66963, 66963>>, <<66966, 66966>>,
     <<66978, 66978>>, <<66994, 66994>>, <<67002, 67002>>, <<67005, 67071>>,
     <<67383, 67391>>, <<67414, 67423>>, <<67432, 67455>>, <<67462, 67462>>,
     <<67505, 67505>>, <<67515, 67583>>, <<67590, 67591>>, <<67593, 67593>>,
     <<67638, 67638>>, <<67641, 67643>>, <<67645, 67646>>, <<67670, 67670>>,
     <<67743, 67750>>, <<67760, 67807>>, <<67827, 67827>>, <<67830, 67834>>,
     <<67868, 67870>>, <<67898, 67902>>, <<67904, 67967>>, <<68024, 68027>>,
     <<68048, 68049>>, <<68100, 68100>>, <<68103, 68107>>, <<68116, 68116>>,
     <<68120, 68120>>, <<68150, 68151>>, <<68155, 68158>>, <<68169, 68175>>,
     <<68185, 68191>>, <<68256, 68287>>, <<68327, 68330>>, <<68343, 68351>>,
     <<68406, 68408>>, <<68438, 68439>>, <<68467, 68471>>, <<68498, 68504>>,
     <<68509, 68520>>, <<68528, 68607>>, <<68681, 68735>>, <<68787, 68799>>,
     <<68851, 68857>>, <<68904, 68911>>, <<68922, 69215>>, <<69247, 69247>>,
     <<69290, 69290>>, <<69294, 69295>>, <<69298, 69375>>, <<69416, 69423>>,
     <<69466, 69487>>, <<69514, 69551>>, <<69580, 69599>>, <<69623, 69631>>,
     <<69710, 69713>>, <<69750, 69758>>, <<69821, 69821>>, <<69827, 69839>>,
     <<69865, 69871>>, <<69882, 69887>>, <<69941, 69941>>, <<69960, 69967>>,
     <<70007, 70015>>, <<70112, 70112>>, <<70133, 70143>>, <<70162, 70162>>,
     <<70207, 70271>>, <<70279, 70279>>, <<70281, 70281>>, <<70286, 70286>>,
     <<70302, 70302>>, <<70314, 70319>>, <<70379, 70383>>, <<70394, 70399>>,
     <<70404, 70404>>, <<70413, 70414>>, <<70417, 70418>>, <<70441, 70441>>,
     <<70449, 70449>>, <<70452, 70452>>, <<70458, 70458>>, <<70469, 70470>>,
     <<70473, 70474>>, <<70478, 70479>>, <<70481, 70486>>, <<70488, 70492>>,
     <<70500, 70501>>, <<70509, 70511>>, <<70517, 70655>>, <<70748, 70748>>,
     <<70754, 70783>>, <<70856, 70863>>, <<70874, 71039>>, <<71094, 71095>>,
     <<71134, 71167>>, <<71237, 71247>>, <<71258, 71263>>, <<71277, 71295>>,
     <<71354, 71359>>, <<71370, 71423>>, <<71451, 71452>>, <<71468, 71471>>,
     <<71495, 71679>>, <<71740, 71839>>, <<71923, 71934>>, <<71943, 71944>>,
     <<71946, 71947>>, <<71956, 71956>>, <<71959, 71959>>, <<71990, 71990>>,
     <<71993, 71994>>, <<72007, 72015>>, <<72026, 72095>>, <<72104, 72105>>,
     <<72152, 72153>>, <<72165, 72191>>, <<72264, 72271>>, <<72355, 72367>>,
     <<72441, 72703>>, <<72713, 72713>>, <<72759, 72759>>, <<72774, 72783>>,
     <<72813, 72815>>, <<72848, 72849>>, <<72872, 72872>>, <<72887, 72959>>,
     <<72967, 72967>>, <<72970, 72970>>, <<73015, 73017>>, <<73019, 73019>>,
     <<73022, 73022>>, <<73032, 73039>>, <<73050, 73055>>, <<73062, 73062>>,
     <<73065, 73065>>, <<73103, 73103>>, <<73106, 73106>>, <<73113, 73119>>,
     <<73130, 73439>>, <<73465, 73647>>, <<73649, 73663>>, <<73714, 73726>>,
     <<74650, 74751>>, <<74863, 74863>>, <<74869, 74879>>, <<75076, 77711>>,
     <<77811, 77823>>, <<78895, 82943>>, <<83527, 92159>>, <<92729, 92735>>,
     <<92767, 92767>>, <<92778, 92781>>, <<92863, 92863>>, <<92874, 92879>>,
     <<92910, 92911>>, <<92918, 92927>>, <<92998, 93007>>, <<93018, 93018>>,
     <<93026, 93026>>, <<93048, 93052>>, <<93072, 93759>>, <<93851, 93951>>,
     <<94027, 94030>>, <<94088, 94094>>, <<94112, 94175>>, <<94181, 94191>>,
     <<94194, 94207>>, <<100344, 100351>>, <<101590, 101631>>,
     <<101641, 110575>>, <<110580, 110580>>, <<110588, 110588>>,
     <<110591, 110591>>, <<110883, 110927>>, <<110931, 110947>>,
     <<110952, 110959>>, <<111356, 113663>>, <<113771, 113775>>,
     <<113789, 113791>>, <<113801, 113807>>, <<113818, 113819>>,
     <<113824, 118527>>, <<118574, 118575>>, <<118599, 118607>>,
     <<118724, 118783>>, <<119030, 119039>>, <<119079, 119080>>,
     <<119155, 119162>>, <<119275, 119295>>, <<119366, 119519>>,
     <<119540, 119551>>, <<119639, 119647>>, <<119673, 119807>>,
     <<119893, 119893>>, <<119965, 119965>>, <<119968, 119969>>,
     <<119971, 119972>>, <<119975, 119976>>, <<119981, 119981>>,
     <<119994, 119994>>, <<119996, 119996>>, <<120004, 120004>>,
     <<120070, 120070>>, <<120075, 120076>>, <<120085, 120085>>,
     <<120093, 120093>>, <<120122, 120122>>, <<120127, 120127>>,
     <<120133, 120133>>, <<120135, 120137>>, <<120145, 120145>>,
     <<120486, 120487>>, <<120780, 120781>>, <<121484, 121498>>,
     <<121504, 121504>>, <<121520, 122623>>, <<122655, 122879>>,
     <<122887, 122887>>, <<122905, 122906>>, <<122914, 122914>>,
     <<122917, 122917>>, <<122923, 123135>>, <<123181, 123183>>,
     <<123198, 123199>>, <<123210, 123213>>, <<123216, 123535>>,
     <<123567, 123583>>, <<123642, 123646>>, <<123648, 124895>>,
     <<124903, 124903>>, <<124908, 124908>>, <<124911, 124911>>,
     <<124927, 124927>>, <<125125, 125126>>, <<125143, 125183>>,
     <<125260, 125263>>, <<125274, 125277>>, <<125280, 126064>>,
     <<126133, 126208>>, <<126270, 126463>>, <<126468, 126468>>,
     <<126496, 126496>>, <<126499, 126499>>, <<126501, 126502>>,
     <<126504, 126504>>, <<126515, 126515>>, <<126520, 126520>>,
     <<126522, 126522>>, <<126524, 126529>>, <<126531, 126534>>,
     <<126536, 126536>>, <<126538, 126538>>, <<126540, 126540>>,
     <<126544, 126544>>, <<126547, 126547>>, <<126549, 126550>>,
     <<126552, 126552>>, <<126554, 126554>>, <<126556, 126556>>,
     <<126558, 126558>>, <<126560, 126560>>, <<126563, 126563>>,
     <<126565, 126566>>, <<126571, 126571>>, <<126579, 126579>>,
     <<126584, 126584>>, <<126589, 126589>>, <<126591, 126591>>,
     <<126602, 126602>>, <<126620, 126624>>, <<126628, 126628>>,
     <<126634, 126634>>, <<126652, 126703>>, <<126706, 126975>>,
     <<127020, 127023>>, <<127124, 127135>>, <<127151, 127152>>,
     <<127168, 127168>>, <<127184, 127184>>, <<127222, 127231>>,
     <<127406, 127461>>, <<127491, 127503>>, <<127548, 127551>>,
     <<127561, 127567>>, <<127570, 127583>>, <<127590, 127743>>,
     <<128728, 128732>>, <<128749, 128751>>, <<128765, 128767>>,
     <<128884, 128895>>, <<128985, 128991>>, <<129004, 129007>>,
     <<129009, 129023>>, <<129036, 129039>>, <<129096, 129103>>,
     <<129114, 129119>>, <<129160, 129167>>, <<129198, 129199>>,
     <<129202, 129279>>, <<129620, 129631>>, <<129646, 129647>>,
     <<129653, 129655>>, <<129661, 129663>>, <<129671, 129679>>,
     <<129709, 129711>>, <<129723, 129727>>, <<129734, 129743>>,
     <<129754, 129759>>, <<129768, 129775>>, <<129783, 129791>>,
     <<129939, 129939>>, <<129995, 130031>>, <<130042, 131071>>,
     <<173792, 173823>>, <<177977, 177983>>, <<178206, 178207>>,
     <<183970, 183983>>, <<191457, 194559>>, <<195102, 196607>>,
     <<201547, 917759>>, <<918000, 1114111>>}

IsPrintable(c) ==
    IF c < 128 THEN c >= 32 /\ c < 127
    ELSE \A r \in NonPrintable : c < r[1] \/ c > r[2]

\* n in `width` hexadecimal digits, in lower case.
Hex(n, width) ==
    [i \in 1..width |->
        LET d == (n \div 16 ^ (width - i)) % 16
        IN  IF d < 10 THEN 48 + d ELSE 87 + d]

\* n in decimal digits.
RECURSIVE Decimal(_)
Decimal(n) ==
    IF n < 10 THEN <<48 + n>> ELSE Append(Decimal(n \div 10), 48 + (n % 10))

Quote(s) ==
    IF (\E i \in 1..Len(s) : s[i] = 39) /\ (\A i \in 1..Len(s) : s[i] # 34)
    THEN 34 ELSE 39

Escaped(c, quote) ==
    IF c = quote \/ c = 92 THEN <<92, c>>
    ELSE IF c = 9 THEN <<92, 116>>
    ELSE IF c = 10 THEN <<92, 110>>
    ELSE IF c = 13 THEN <<92, 114>>
    ELSE IF IsPrintable(c) THEN <<c>>
    ELSE IF c < 256 THEN <<92, 120>> \o Hex(c, 2)
    ELSE IF c < 65536 THEN <<92, 117>> \o Hex(c, 4)
    ELSE <<92, 85>> \o Hex(c, 8)

\* The characters of s escaped, the string halved until it is short.
RECURSIVE EscapedAll(_, _)
EscapedAll(s, quote) ==
    IF Len(s) = 0 THEN <<>>
    ELSE IF Len(s) = 1 THEN Escaped(s[1], quote)
    ELSE LET h == Len(s) \div 2
         IN  EscapedAll(SubSeq(s, 1, h), quote)
                 \o EscapedAll(SubSeq(s, h + 1, Len(s)), quote)

\* s between two quotes, its characters escaped.
Quoted(s, quote) == <<quote>> \o EscapedAll(s, quote) \o <<quote>>

Repr(s) == Quoted(s, Quote(s))

\* The first 200 characters of repr(s): the "%.200R" of int()'s message.
Repr200(s) ==
    LET First(r) == SubSeq(r, 1, Min(Len(r), 200))
    IN  First(Quoted(First(s), Quote(s)))

\* type(v).__name__ of a value: NoneType, bool, int, float, str, list.
TypeName(v) ==
    CASE v.t = "none" -> <<78, 111, 110, 101, 84, 121, 112, 101>>
      [] v.t = "bool" -> <<98, 111, 111, 108>>
      [] v.t = "num" /\ v.num.k = "int" -> <<105, 110, 116>>
      [] v.t = "num" /\ v.num.k # "int" -> <<102, 108, 111, 97, 116>>
      [] v.t = "str" -> <<115, 116, 114>>
      [] OTHER -> <<108, 105, 115, 116>>


HasSign(s) == s # <<>> /\ Head(s) \in {Plus, Minus}
Unsigned(s) == IF HasSign(s) THEN Tail(s) ELSE s
Negative(s) == s # <<>> /\ Head(s) = Minus

AllDigits(s) == \A i \in 1..Len(s) : IsDigit(s[i])

\* An underscore may stand between two digits only.
UnderscoresOk(s) ==
    \A i \in 1..Len(s) :
        s[i] = Underscore =>
            i > 1 /\ i < Len(s) /\ IsDigit(s[i - 1]) /\ IsDigit(s[i + 1])

Ungrouped(s) == SelectSeq(s, LAMBDA c : c # Underscore)

\* The number a string of digits writes, the string halved until it is
\* short.
RECURSIVE DigitsVal(_)
DigitsVal(s) ==
    IF Len(s) = 0 THEN <<>>
    ELSE IF Len(s) = 1 THEN BOfNat(DigitVal(s[1]))
    ELSE LET h == Len(s) \div 2
         IN  BAdd(BMul(DigitsVal(SubSeq(s, 1, h)), BPow10(Len(s) - h)),
                  DigitsVal(SubSeq(s, h + 1, Len(s))))

\* The most digits int() converts (sys.int_info.default_max_str_digits).
MaxStrDigits == 4300

\* The exceptions of int().
InvalidLiteral(s) ==
    Exc("ValueError", "invalid literal for int() with base 10: {repr}", Repr200(s))
TooManyDigits(n) ==
    Exc("ValueError",
        "Exceeds the limit (4300 digits) for integer string conversion: value has {n} digits; use sys.set_int_max_str_digits() to increase the limit",
        Decimal(n))
IntOfNaN == Exc("ValueError", "cannot convert float NaN to integer", <<>>)
IntOfInfinity == Exc("OverflowError", "cannot convert float infinity to integer", <<>>)
IntOfType(v) ==
    Exc("TypeError",
        "int() argument must be a string, a bytes-like object or a real number, not '{type}'",
        TypeName(v))

\* The run of digits and underscores that a string begins with.
DigitRun(body) ==
    LET Upto(after) ==
            IF after = {} THEN body ELSE SubSeq(body, 1, Least(after) - 1)
    IN  Upto({i \in 1..Len(body) : ~IsDigit(body[i]) /\ body[i] # Underscore})

\* The underscores of the run are checked, then the number of its digits,
\* then that nothing follows it.
IntOfRun(s, body, run) ==
    IF UnderscoresOk(run) /\ Len(Ungrouped(run)) > MaxStrDigits
    THEN Raise(TooManyDigits(Len(Ungrouped(run))))
    ELSE IF UnderscoresOk(run) /\ Ungrouped(run) # <<>> /\ run = body
    THEN Ok(IntV(Negative(Strip(s)), DigitsVal(Ungrouped(run))))
    ELSE Raise(InvalidLiteral(s))

\* int(s) of a string: after the sign, the run of digits and underscores is
\* read.
IntOfStr(s) == IntOfRun(s, Unsigned(Strip(s)), DigitRun(Unsigned(Strip(s))))

\* int(x) of a float: the whole part.
Truncated(x) ==
    IF x.e >= 0 THEN IntV(x.neg, BShl(x.m, x.e))
    ELSE IF -x.e >= BBitLen(x.m) THEN PyInt(0)
    ELSE IntV(x.neg, BShr(x.m, -x.e))

\* int(v): an int is itself and a bool 0 or 1, a float loses its fraction,
\* a string must be an integer literal, None and containers are TypeErrors.
IntOf(v) ==
    CASE v.t = "num" ->
            (CASE v.num.k = "int" -> Ok(v.num)
               [] v.num.k = "fin" -> Ok(Truncated(v.num))
               [] v.num.k = "inf" -> Raise(IntOfInfinity)
               [] v.num.k = "nan" -> Raise(IntOfNaN))
      [] v.t = "bool" -> Ok(v.num)
      [] v.t = "str" -> IntOfStr(v.s)
      [] OTHER -> Raise(IntOfType(v))

\* The first place of a character of the set C in s, 0 when there is none.
FirstOf(s, C) ==
    LET First(at) == IF at = {} THEN 0 ELSE Least(at)
    IN  First({i \in 1..Len(s) : s[i] \in C})

\* s cut at its first character of the set C: the place, 0 when there is
\* none, what is before it and what is after it.
CutAt(s, C) ==
    LET At(i) ==
            [at |-> i,
             before |-> IF i = 0 THEN s ELSE SubSeq(s, 1, i - 1),
             after |-> IF i = 0 THEN <<>> ELSE SubSeq(s, i + 1, Len(s))]
    IN  At(FirstOf(s, C))

\* s from its first digit that is not a zero on.
Significant(s) ==
    LET From(lead) == IF lead = {} THEN <<>> ELSE SubSeq(s, Least(lead), Len(s))
    IN  From({i \in 1..Len(s) : DigitVal(s[i]) # 0})

\* A string as letters of the alphabet (1..26) in either case, any other
\* code point being 0.
Letters(s) ==
    [i \in 1..Len(s) |->
        IF s[i] >= 65 /\ s[i] <= 90 THEN s[i] - 64
        ELSE IF s[i] >= 97 /\ s[i] <= 122 THEN s[i] - 96 ELSE 0]

\* The decimal exponents beyond which a literal of d digits is an infinity
\* or a zero whatever its digits, and the greatest exponent that is read
\* digit by digit.
DecimalCeiling == 310
DecimalFloor == -330
ExponentDigits == 8

\* The double nearest to d / p, by a quotient of 66 bits or more.
ScaledDown(neg, d, p) ==
    RoundQuotient(neg, BDivMod(BShl(d, Max(0, 66 + BBitLen(p) - BBitLen(d))), p),
                  -Max(0, 66 + BBitLen(p) - BBitLen(d)))

\* The double nearest to d * 10^scale, for a natural number d # 0.
ScaledToFloat(neg, d, scale) ==
    IF scale >= 0 THEN RoundNearest(neg, BMul(d, BPow10(scale)), 0)
    ELSE ScaledDown(neg, d, BPow10(-scale))

\* The double nearest to sig * 10^scale, sig without leading zeros; the
\* number the digits write is computed before it is scaled.
SignificantToFloat(neg, sig, scale) ==
    IF sig = <<>> THEN Zero(neg)
    ELSE IF Len(sig) + scale > DecimalCeiling THEN Inf(neg)
    ELSE IF Len(sig) + scale < DecimalFloor THEN Zero(neg)
    ELSE CHOOSE x \in {ScaledToFloat(neg, d, scale) : d \in {DigitsVal(sig)}} : TRUE

\* The double nearest to digits * 10^scale.
DecimalToFloat(neg, digits, scale) ==
    SignificantToFloat(neg, Significant(digits), scale)

\* The number an exponent without leading zeros writes; an exponent of
\* more than ExponentDigits digits counts as 10^ExponentDigits.
ExponentOf(sig) ==
    IF Len(sig) > ExponentDigits THEN 10 ^ ExponentDigits ELSE BToNat(DigitsVal(sig))

\* The value of the exponent of a literal, its digits given.
ExponentVal(neg, digits) ==
    IF neg THEN -ExponentOf(Significant(digits)) ELSE ExponentOf(Significant(digits))

\* The exceptions of float().
NotAFloat(s) ==
    Exc("ValueError", "could not convert string to float: {repr}", Repr(s))
FloatOfType(v) ==
    Exc("TypeError", "float() argument must be a string or a real number, not '{type}'",
        TypeName(v))

\* A literal with its mantissa cut at the point and its exponent cut off.
FloatLiteral(s, neg, body, mant, expo) ==
    IF Letters(body) \in {<<9, 14, 6>>, <<9, 14, 6, 9, 14, 9, 20, 25>>}
    THEN Ok(Inf(neg))  \* "inf", "infinity"
    ELSE IF Letters(body) = <<14, 1, 14>> THEN Ok(NaN)  \* "nan"
    ELSE IF /\ UnderscoresOk(body)
            /\ AllDigits(mant.before) /\ AllDigits(mant.after)
            /\ Len(mant.before) + Len(mant.after) > 0
            /\ expo.at # 0 =>
                   Unsigned(expo.after) # <<>> /\ AllDigits(Unsigned(expo.after))
    THEN Ok(DecimalToFloat(neg, mant.before \o mant.after,
                           ExponentVal(Negative(expo.after), Unsigned(expo.after))
                               - Len(mant.after)))
    ELSE Raise(NotAFloat(s))

\* A literal with its exponent cut off at the "e" or "E".
FloatParts(s, neg, body, expo) ==
    FloatLiteral(s, neg, body, CutAt(expo.before, {Dot}), expo)

\* float(s) of a string: a decimal literal with an optional fraction and an
\* optional exponent, or inf, infinity or nan, after an optional sign.
FloatOfStr(s) ==
    FloatParts(s, Negative(Strip(s)), Unsigned(Strip(s)),
               CutAt(Ungrouped(Unsigned(Strip(s))), {69, 101}))

\* float(v): a float is itself, an int and a bool are converted, a string
\* must be a float literal, None and containers are TypeErrors.
FloatOf(v) ==
    CASE v.t = "num" -> (IF v.num.k = "int" THEN FloatOfInt(v.num) ELSE Ok(v.num))
      [] v.t = "bool" -> FloatOfInt(v.num)
      [] v.t = "str" -> FloatOfStr(v.s)
      [] OTHER -> Raise(FloatOfType(v))

(***************************************************************************)
(* validate_cnic: re.match(r'^\d{5}-\d{7}-\d{1}$', cnic).  In Python "$"    *)
(* matches at the end of the string and also just before a newline that is *)
(* the string's last character; re.match raises TypeError on a value that  *)
(* is not a string.                                                        *)
(***************************************************************************)
CnicShape(s) ==
    /\ Len(s) >= 15
    /\ \A i \in 1..5 : IsDigit(s[i])
    /\ s[6] = Hyphen
    /\ \A i \in 7..13 : IsDigit(s[i])
    /\ s[14] = Hyphen
    /\ IsDigit(s[15])

DollarAt(s, i) == i = Len(s) + 1 \/ (i = Len(s) /\ s[i] = Newline)

validate_cnic(cnic) ==
    IF cnic.t # "str"
    THEN [ok |-> FALSE, v |-> FALSE,
          exc |-> Exc("TypeError", "expected string or bytes-like object, got '{type}'",
                      TypeName(cnic))]
    ELSE [ok |-> TRUE, v |-> CnicShape(cnic.s) /\ DollarAt(cnic.s, 16), exc |-> NoExc]

(***************************************************************************)
(* validate_loan                                                           *)
(***************************************************************************)
\* "Home", "Car", "Business", "Education", "Agriculture", "Dairy".
Home == <<72, 111, 109, 101>>
Car == <<67, 97, 114>>
Business == <<66, 117, 115, 105, 110, 101, 115, 115>>
Education == <<69, 100, 117, 99, 97, 116, 105, 111, 110>>
Agriculture == <<65, 103, 114, 105, 99, 117, 108, 116, 117, 114, 101>>
Dairy == <<68, 97, 105, 114, 121>>

LOAN_TYPES == <<Home, Car, Business, Education, Agriculture, Dairy>>

\* The error messages, with the loan type an f-string puts into two of them.
CnicError == Msg("Invalid CNIC format. Use: XXXXX-XXXXXXX-X", <<>>)
AgeError(loan_type) == Msg("Age must be 22-60 years for {loan_type} loans", loan_type)
BusinessError == Msg("Age must be 22-70 years for Business loans", <<>>)
StudentError == Msg("Student age must be 18-50 years", <<>>)
AcresError(loan_type) == Msg("{loan_type} loans require more than 13 acres", loan_type)
\* str(e) of a caught exception.
ExcMsg(e) == e.msg

\* The errors of a check, or the exception that escapes it.
Errors(list) == [ok |-> TRUE, v |-> list, exc |-> NoExc]
Escapes(e) == [ok |-> FALSE, v |-> <<>>, exc |-> e]

\* Lines 20-22: the CNIC check.
CnicErrors(ok) == IF ok THEN <<>> ELSE <<CnicError>>

\* Lines 28-30.
HomeCarErrors(loan_type, age) ==
    IF Lt(age, PyInt(22)) \/ Gt(age, PyInt(60))
    THEN <<AgeError(loan_type)>> ELSE <<>>

\* Lines 32-34.
BusinessErrors(age) ==
    IF Lt(age, PyInt(22)) \/ Gt(age, PyInt(70)) THEN <<BusinessError>> ELSE <<>>

\* Lines 36-39.
EducationErrors(student_age) ==
    IF Lt(student_age, PyInt(18)) \/ Gt(student_age, PyInt(50))
    THEN <<StudentError>> ELSE <<>>

\* Mutant: "fewer than 13" where the source has "13 or fewer".
LandErrorsStrict(loan_type, land_acres) ==
    IF Lt(land_acres, PyInt(13)) THEN <<AcresError(loan_type)>> ELSE <<>>

\* Lines 41-44.
LandErrors(loan_type, land_acres) ==
    IF Le(land_acres, PyInt(13)) THEN <<AcresError(loan_type)>> ELSE <<>>

\* Lines 37-39, with the value or the exception of int().
StudentChecked(student_age) ==
    IF student_age.ok THEN Errors(EducationErrors(student_age.v))
    ELSE Escapes(student_age.exc)

\* Lines 42-44, with the value or the exception of float().
LandChecked(loan_type, land_acres) ==
    IF land_acres.ok THEN Errors(LandErrors(loan_type, land_acres.v))
    ELSE Escapes(land_acres.exc)

\* Mutant: a loan type that is not recognized is judged as Home.
TypeErrorsDefaultHome(data, loan_type, age) ==
    IF loan_type = Str(Business)
    THEN Errors(BusinessErrors(age))
    ELSE IF loan_type = Str(Education)
    THEN StudentChecked(IntOf(Get(data, "studentAge", Num(PyInt(0)))))
    ELSE IF loan_type \in {Str(Agriculture), Str(Dairy)}
    THEN LandChecked(loan_type.s, FloatOf(Get(data, "landAcres", Num(PyInt(0)))))
    ELSE Errors(HomeCarErrors(IF loan_type = Str(Car) THEN Car ELSE Home, age))

\* Lines 28-44: the branch on the loan type; the coercion of studentAge and
\* landAcres happens inside its branch only.
TypeErrors(data, loan_type, age) ==
    IF loan_type \in {Str(Home), Str(Car)}
    THEN Errors(HomeCarErrors(loan_type.s, age))
    ELSE IF loan_type = Str(Business)
    THEN Errors(BusinessErrors(age))
    ELSE IF loan_type = Str(Education)
    THEN StudentChecked(IntOf(Get(data, "studentAge", Num(PyInt(0)))))
    ELSE IF loan_type \in {Str(Agriculture), Str(Dairy)}
    THEN LandChecked(loan_type.s, FloatOf(Get(data, "landAcres", Num(PyInt(0)))))
    ELSE Errors(<<>>)

\* Line 46: the CNIC error comes before the errors of the loan type.
AllErrors(cnic, typed) ==
    IF typed.ok THEN Errors(CnicErrors(cnic.v) \o typed.v) ELSE Escapes(typed.exc)

\* Lines 20-46, with the outcomes of validate_cnic and of int(age).
LoanChecked(data, cnic, loan_type, age) ==
    IF ~cnic.ok THEN Escapes(cnic.exc)
    ELSE IF ~age.ok THEN Escapes(age.exc)
    ELSE AllErrors(cnic, TypeErrors(data, loan_type, age.v))

\* Mutant: the type check is skipped once the CNIC check has failed.
validate_loan_failfast(data) ==
    LET Failfast(cnic, age) ==
            IF ~cnic.ok THEN Escapes(cnic.exc)
            ELSE IF ~cnic.v THEN Errors(<<CnicError>>)
            ELSE IF ~age.ok THEN Escapes(age.exc)
            ELSE TypeErrors(data, Get(data, "loanType", Str(Home)), age.v)
    IN  Failfast(validate_cnic(Get(data, "cnic", Str(<<>>))),
                 IntOf(Get(data, "age", Num(PyInt(0)))))

\* The result is the list of errors, or the exception that escapes.
validate_loan(data) ==
    LoanChecked(data, validate_cnic(Get(data, "cnic", Str(<<>>))),
                Get(data, "loanType", Str(Home)),
                IntOf(Get(data, "age", Num(PyInt(0)))))

(***************************************************************************)
(* POST /api/validate                                                      *)
(***************************************************************************)
validate(data) ==
    LET Response(errors) ==
            IF errors.ok
            THEN [status |-> 200,
                  body |-> [isValid |-> Len(errors.v) = 0, errors |-> errors.v]]
            ELSE [status |-> 400,
                  body |-> [isValid |-> FALSE, errors |-> <<ExcMsg(errors.exc)>>]]
    IN  Response(validate_loan(data))

(***************************************************************************)
(* POST /api/calculate.  emi_calls counts the calls of calculate_emi.      *)
(***************************************************************************)
AmountError == Msg("Loan amount must be greater than 0", <<>>)
RateError == Msg("Interest rate must be between 0 and 100", <<>>)
TenureError == Msg("Loan tenure must be greater than 0", <<>>)

ErrorResponse(msg, calls) ==
    [status |-> 400, body |-> [error |-> msg], emi_calls |-> calls]

\* Lines 124-128: the response to an outcome of calculate_emi.
Answer(result) ==
    IF result.ok THEN [status |-> 200, body |-> result.v, emi_calls |-> 1]
    ELSE ErrorResponse(ExcMsg(result.exc), 1)

\* Mutant: the rate is checked before the amount.
CalculateCheckedRateFirst(principal, annual_rate, tenure) ==
    IF Lt(annual_rate, PyInt(0)) \/ Gt(annual_rate, PyInt(100))
    THEN {ErrorResponse(RateError, 0)}
    ELSE IF Le(principal, PyInt(0)) THEN {ErrorResponse(AmountError, 0)}
    ELSE IF Le(tenure, PyInt(0)) THEN {ErrorResponse(TenureError, 0)}
    ELSE {Answer(result) : result \in calculate_emi(principal, annual_rate, tenure)}

\* Lines 116-128, with the three coerced inputs: the responses possible.
CalculateChecked(principal, annual_rate, tenure) ==
    IF Le(principal, PyInt(0)) THEN {ErrorResponse(AmountError, 0)}
    ELSE IF Lt(annual_rate, PyInt(0)) \/ Gt(annual_rate, PyInt(100))
    THEN {ErrorResponse(RateError, 0)}
    ELSE IF Le(tenure, PyInt(0)) THEN {ErrorResponse(TenureError, 0)}
    ELSE {Answer(result) : result \in calculate_emi(principal, annual_rate, tenure)}

\* Lines 116-128, with the outcomes of the three coercions.
CalculateCoerced(principal, annual_rate, tenure) ==
    IF ~principal.ok THEN {ErrorResponse(ExcMsg(principal.exc), 0)}
    ELSE IF ~annual_rate.ok THEN {ErrorResponse(ExcMsg(annual_rate.exc), 0)}
    ELSE IF ~tenure.ok THEN {ErrorResponse(ExcMsg(tenure.exc), 0)}
    ELSE CalculateChecked(principal.v, annual_rate.v, tenure.v)

calculate(data) ==
    CalculateCoerced(FloatOf(Get(data, "loanAmount", Num(PyInt(0)))),
                     FloatOf(Get(data, "interestRate", Num(PyInt(0)))),
                     IntOf(Get(data, "loanTenure", Num(PyInt(0)))))

(***************************************************************************)
(* The requests explored.                                                  *)
(***************************************************************************)
\* A JSON number: an integer literal, and a literal n * 10^scale with a
\* fraction or an exponent, which json.loads reads as a float.
JsonInt(n) == Num(PyInt(n))
JsonFloat(n, scale) == Num(ScaledToFloat(n < 0, BOfNat(Abs(n)), scale))

\* 2^1024, an integer literal of 309 digits.
HugeInt == Num(IntV(FALSE, BShl(<<1>>, 1024)))

\* "12345-1234567-1", "1234-123456-1", and the first in Arabic-Indic digits.
ValidCnic == <<49, 50, 51, 52, 53, 45, 49, 50, 51, 52, 53, 54, 55, 45, 49>>
ShortCnic == <<49, 50, 51, 52, 45, 49, 50, 51, 52, 53, 54, 45, 49>>
ArabicCnic ==
    <<1633, 1634, 1635, 1636, 1637, 45, 1633, 1634, 1635, 1636, 1637, 1638,
      1639, 45, 1633>>
\* "7", "-", "x", " ", a newline and the Arabic-Indic digit 7.
CnicAlphabet == {55, 45, 120, 32, 10, 1639}

\* Every string one edit away from a well-formed CNIC, and a few more.
CnicStrings ==
    LET s == ValidCnic
        Deleted(i) == SubSeq(s, 1, i - 1) \o SubSeq(s, i + 1, Len(s))
        Inserted(i, c) == SubSeq(s, 1, i - 1) \o <<c>> \o SubSeq(s, i, Len(s))
        Replaced(i, c) == [s EXCEPT ![i] = c]
    IN  {ValidCnic, ShortCnic, ArabicCnic, <<>>, ValidCnic \o <<10, 10>>}
        \cup {Deleted(i) : i \in 1..Len(s)}
        \cup {Inserted(i, c) : i \in 1..(Len(s) + 1), c \in CnicAlphabet}
        \cup {Replaced(i, c) : i \in 1..Len(s), c \in CnicAlphabet}

\* "abc" and "Gold".
NotANumber == Str(<<97, 98, 99>>)
Gold == <<71, 111, 108, 100>>

CnicValues ==
    {Absent, None, Bool(TRUE), Other, JsonInt(12345)} \cup {Str(s) : s \in CnicStrings}
CnicChoices == {Str(ValidCnic), Str(ShortCnic)}
LoanTypeValues ==
    {Absent, Str(Gold)} \cup {Str(LOAN_TYPES[i]) : i \in 1..Len(LOAN_TYPES)}
\* Among the ages: "30", a tab and "30", "3_0", "30" in Arabic-Indic digits,
\* and 60.5.
AgeValues ==
    {Absent, None, NotANumber, Bool(TRUE), Str(<<51, 48>>), Str(<<9, 51, 48>>),
     Str(<<51, 95, 48>>), Str(<<1635, 1632>>), JsonFloat(605, -1), Num(NaN),
     Num(Inf(FALSE))}
    \cup {JsonInt(a) : a \in (-1)..MaxAge}
AgeProbes == {Absent, NotANumber, JsonInt(21), JsonInt(30)}
\* Among the student ages: "1_8" and 50.5.
StudentAgeValues ==
    {Absent, NotANumber, Str(<<49, 95, 56>>), JsonFloat(505, -1)}
    \cup {JsonInt(a) : a \in 0..MaxStudentAge}
StudentAgeProbes == {Absent, JsonInt(17), JsonInt(20)}
\* Among the areas: "13.5", "1e2", "nan", 13.0, 13.01 and 13.5.
LandValues ==
    {Absent, NotANumber, Str(<<49, 51, 46, 53>>), Str(<<49, 101, 50>>),
     Str(<<110, 97, 110>>), JsonInt(0), JsonInt(13), JsonFloat(130, -1),
     JsonFloat(1301, -2), JsonFloat(135, -1), JsonInt(14), Num(NaN), HugeInt}
LandProbes == {Absent, JsonInt(13), JsonInt(14)}

Application(cnic, loanType, age, studentAge, landAcres) ==
    [cnic |-> cnic, loanType |-> loanType, age |-> age,
     studentAge |-> studentAge, landAcres |-> landAcres]

\* Among the amounts: "1e3", " 100 " and 0.0095.
AmountValues ==
    {Absent, None, NotANumber, Bool(TRUE), Str(<<49, 101, 51>>),
     Str(<<32, 49, 48, 48, 32>>), JsonInt(-5), JsonInt(0), JsonFloat(95, -4),
     JsonInt(100), JsonFloat(10000, -1), Num(NaN), Num(Inf(FALSE))}
\* Among the rates: "1e1" and 100.5.
RateValues ==
    {Absent, NotANumber, Str(<<49, 101, 49>>), JsonInt(-1), JsonInt(0),
     Num(Zero(TRUE)), JsonInt(10), JsonInt(100), JsonFloat(1005, -1),
     JsonInt(150), Num(NaN)}
\* Among the tenures: "1_2" and 2.5.
TenureProbes ==
    {Absent, NotANumber, Str(<<49, 95, 50>>), JsonInt(-1), JsonInt(0),
     JsonFloat(25, -1), JsonInt(3), Num(NaN)}

SchedulePrincipals == {JsonInt(100), JsonInt(1000), JsonFloat(95, -4), JsonInt(100000)}
ScheduleRates == {JsonInt(0), JsonFloat(105, -1)}

EmiRequest(loanAmount, interestRate, loanTenure) ==
    [loanAmount |-> loanAmount, interestRate |-> interestRate,
     loanTenure |-> loanTenure]

\* Requests at the edges of the arithmetic: the specification's example; a
\* long loan; amounts that are ties of round(); amounts of 1e14 and 1e16; the
\* tenures around the overflow of math.pow at rate 100; a rate that
\* vanishes in 1 + monthly_rate; a tenure beyond every double.
Extremes ==
    {EmiRequest(JsonInt(100000), JsonInt(10), JsonInt(12)),
     EmiRequest(JsonInt(250000), JsonFloat(75, -1), JsonInt(360)),
     EmiRequest(JsonFloat(2675, -3), JsonInt(0), JsonInt(1)),
     EmiRequest(JsonFloat(375, -3), JsonInt(0), JsonInt(3)),
     EmiRequest(JsonFloat(1, 14), JsonInt(0), JsonInt(3)),
     EmiRequest(JsonFloat(1, 14), JsonInt(10), JsonInt(12)),
     EmiRequest(JsonFloat(1, 16), JsonInt(0), JsonInt(7)),
     EmiRequest(JsonInt(100), JsonInt(100), JsonInt(8867)),
     EmiRequest(JsonInt(100), JsonInt(100), JsonInt(8868)),
     EmiRequest(JsonInt(100), JsonInt(100), JsonInt(9000)),
     EmiRequest(JsonInt(100), JsonFloat(1, -13), JsonInt(5)),
     EmiRequest(JsonInt(100), JsonInt(0), HugeInt),
     EmiRequest(JsonInt(100), JsonInt(5), HugeInt)}

(***************************************************************************)
(* The server.  A handler reads nothing but its request: it takes a        *)
(* request when none is being served, answers it, and the request context  *)
(* is dropped before the next one is taken.                                *)
(***************************************************************************)
NoRequest == [route |-> "", body |-> <<>>]
NoResponse == [status |-> 0, body |-> <<>>]

Idle == req = NoRequest

Init ==
    /\ req = NoRequest
    /\ resp = NoResponse
    /\ emiCalls = 0

Serve(route, data, response, calls) ==
    /\ req' = [route |-> route, body |-> data]
    /\ resp' = response
    /\ emiCalls' = calls

\* POST /api/validate, over the CNIC values and over the rule fields.
PostValidate ==
    /\ Idle
    /\ \/ \E c \in CnicValues :
            LET data == Application(c, Absent, JsonInt(30), Absent, Absent)
            IN  Serve("/api/validate", data, validate(data), 0)
       \/ \E c \in CnicChoices, lt \in LoanTypeValues, a \in AgeValues,
             sa \in StudentAgeProbes, la \in LandProbes :
            LET data == Application(c, lt, a, sa, la)
            IN  Serve("/api/validate", data, validate(data), 0)
       \/ \E c \in CnicChoices, lt \in LoanTypeValues, a \in AgeProbes,
             sa \in StudentAgeValues, la \in LandProbes :
            LET data == Application(c, lt, a, sa, la)
            IN  Serve("/api/validate", data, validate(data), 0)
       \/ \E c \in CnicChoices, lt \in LoanTypeValues, a \in AgeProbes,
             sa \in StudentAgeProbes, la \in LandValues :
            LET data == Application(c, lt, a, sa, la)
            IN  Serve("/api/validate", data, validate(data), 0)

\* One of the responses calculate can give to the body.
Calculated(data) ==
    \E res \in calculate(data) :
        Serve("/api/calculate", data,
              [status |-> res.status, body |-> res.body], res.emi_calls)

\* POST /api/calculate, over the bounds, over the tenures of a schedule and
\* over the edges of the arithmetic.
PostCalculate ==
    /\ Idle
    /\ \/ \E p \in AmountValues, r \in RateValues, n \in TenureProbes :
            Calculated(EmiRequest(p, r, n))
       \/ \E p \in SchedulePrincipals, r \in ScheduleRates, k \in 1..MaxTenure :
            Calculated(EmiRequest(p, r, JsonInt(k)))
       \/ \E data \in Extremes : Calculated(data)

\* The response is sent and the request context ends.
Teardown ==
    /\ ~Idle
    /\ req' = NoRequest
    /\ resp' = NoResponse
    /\ emiCalls' = 0

Next == PostValidate \/ PostCalculate \/ Teardown

Spec == Init /\ [][Next]_vars
SpecValidate == Init /\ [][PostValidate \/ Teardown]_vars
SpecCalculate == Init /\ [][PostCalculate \/ Teardown]_vars

(***************************************************************************)
(* Vocabulary of the properties.                                           *)
(***************************************************************************)
InValidate == req.route = "/api/validate"
InCalculate == req.route = "/api/calculate"

IsText(v) == v = Absent \/ v.t = "str"
\* A JSON integer; a JSON number, integer or finite float; a number a
\* float holds (any float, or an integer within the range of floats).
IsInteger(v) == v = Absent \/ (v.t = "num" /\ v.num.k = "int")
IsNumber(v) == v = Absent \/ (v.t = "num" /\ v.num.k \in {"int", "fin"})
IsFloatNumber(v) ==
    v = Absent \/ (v.t = "num" /\ (v.num.k = "int" => FloatOfInt(v.num).ok))

\* The number a numeric field holds, a missing field counting as 0.
NumberOf(v) == IF v = Absent THEN PyInt(0) ELSE v.num

KnownTypes == {Str(LOAN_TYPES[i]) : i \in 1..Len(LOAN_TYPES)}

\* The errors of a list other than the CNIC error.
TypeErrorsOf(errors) == SelectSeq(errors, LAMBDA e : e # CnicError)

\* The type rule as the specification's table states it.
RuleViolated(data) ==
    LET lt == data.loanType
        age == NumberOf(data.age)
        student == NumberOf(data.studentAge)
        acres == NumberOf(data.landAcres)
    IN  \/ lt \in {Str(Home), Str(Car)} /\ (Lt(age, PyInt(22)) \/ Gt(age, PyInt(60)))
        \/ lt = Str(Business) /\ (Lt(age, PyInt(22)) \/ Gt(age, PyInt(70)))
        \/ lt = Str(Education)
              /\ (Lt(student, PyInt(18)) \/ Gt(student, PyInt(50)))
        \/ lt \in {Str(Agriculture), Str(Dairy)} /\ Le(acres, PyInt(13))

RuleMessage(lt) ==
    CASE lt \in {Str(Home), Str(Car)} -> AgeError(lt.s)
      [] lt = Str(Business) -> BusinessError
      [] lt = Str(Education) -> StudentError
      [] lt \in {Str(Agriculture), Str(Dairy)} -> AcresError(lt.s)

\* Integers in age and studentAge and a number in landAcres; the same with
\* the number within the range of floats, which float() converts.
NumericFields(data) ==
    IsInteger(data.age) /\ IsInteger(data.studentAge)
        /\ (data.landAcres = Absent \/ data.landAcres.t = "num")
Convertible(data) == NumericFields(data) /\ IsFloatNumber(data.landAcres)

\* C1: for an application of a known loan type whose age and studentAge are
\* integers and whose landAcres is a number (missing fields counting as 0),
\* validate_loan reports the type's error exactly when the type's rule is
\* violated: age outside [22,60] for Home and Car, outside [22,70] for
\* Business, studentAge outside [18,50] for Education, landAcres <= 13 for
\* Agriculture and Dairy; and it is the only error beside the CNIC error,
\* in a response of status 200, unless the type is Agriculture or Dairy and
\* landAcres is an integer beyond every float, which float() refuses.
C1_TypeRuleExact ==
    (InValidate /\ IsText(req.body.cnic) /\ NumericFields(req.body)
       /\ req.body.loanType \in KnownTypes)
    => /\ (\E i \in 1..Len(resp.body.errors) :
              resp.body.errors[i] = RuleMessage(req.body.loanType))
           <=> RuleViolated(req.body)
       /\ (Convertible(req.body)
             \/ req.body.loanType \notin {Str(Agriculture), Str(Dairy)})
           => /\ resp.status = 200
              /\ TypeErrorsOf(resp.body.errors) =
                   IF RuleViolated(req.body)
                   THEN <<RuleMessage(req.body.loanType)>> ELSE <<>>

\* The boundary of the land rule: exactly 13 acres is an error.
C1_Witness ==
    /\ InValidate
    /\ req.body.loanType = Str(Agriculture)
    /\ req.body.landAcres = JsonInt(13)
    /\ req.body.cnic = Str(ValidCnic)
    /\ resp.body.errors = <<AcresError(Agriculture)>>

Malformed(data) ==
    IsText(data.cnic) /\ ~validate_cnic(Get(data, "cnic", Str(<<>>))).v

\* C2: the CNIC check and the type check both run: a malformed CNIC with a
\* violated type rule gives exactly the CNIC error followed by the type
\* error; no list is longer than two; isValid holds exactly when the list
\* is empty.
C2_ChecksAccumulate ==
    InValidate =>
        /\ Len(resp.body.errors) <= 2
        /\ resp.body.isValid <=> (resp.body.errors = <<>>)
        /\ (Malformed(req.body) /\ NumericFields(req.body)
              /\ req.body.loanType \in KnownTypes /\ RuleViolated(req.body))
           => resp.body.errors = <<CnicError, RuleMessage(req.body.loanType)>>

C2_Witness ==
    /\ InValidate
    /\ req.body.cnic = Str(ShortCnic)
    /\ req.body.loanType = Str(Education)
    /\ req.body.studentAge = JsonInt(17)
    /\ resp.body.errors = <<CnicError, StudentError>>
    /\ ~resp.body.isValid

\* The form the specification gives: 15 characters, 5 digits, a hyphen,
\* 7 digits, a hyphen, 1 digit.
ExactCnic(s) == Len(s) = 15 /\ CnicShape(s)

\* C3: a CNIC string passes the format check if and only if it is exactly 15
\* characters of the form DDDDD-DDDDDDD-D; every other string, and the
\* missing value, gets the CNIC format error.
C3_CnicExactForm ==
    (InValidate /\ IsText(req.body.cnic) /\ resp.status = 200)
    => ((\A i \in 1..Len(resp.body.errors) : resp.body.errors[i] # CnicError)
          <=> ExactCnic(Get(req.body, "cnic", Str(<<>>)).s))

\* C4: a missing loanType is judged by the Home rule; a loanType that is
\* present and not one of the six types gets no type check, so with numbers
\* in the numeric fields the errors are those of the CNIC check alone and a
\* well-formed CNIC gives isValid.
C4_DefaultAndUnknownType ==
    /\ (InValidate /\ req.body.loanType = Absent /\ IsText(req.body.cnic)
          /\ IsInteger(req.body.age))
       => /\ resp.status = 200
          /\ TypeErrorsOf(resp.body.errors) =
               IF Lt(NumberOf(req.body.age), PyInt(22))
                    \/ Gt(NumberOf(req.body.age), PyInt(60))
               THEN <<AgeError(Home)>> ELSE <<>>
    /\ (InValidate /\ req.body.loanType \notin KnownTypes \cup {Absent}
          /\ IsText(req.body.cnic) /\ IsNumber(req.body.age)
          /\ IsNumber(req.body.studentAge) /\ IsNumber(req.body.landAcres))
       => /\ resp.status = 200
          /\ resp.body.errors = IF Malformed(req.body) THEN <<CnicError>> ELSE <<>>
          /\ resp.body.isValid <=> ~Malformed(req.body)

\* An unknown type with an age no known rule would accept, and valid.
C4_Witness ==
    /\ InValidate
    /\ req.body.loanType = Str(Gold)
    /\ req.body.age = JsonInt(5)
    /\ req.body.cnic = Str(ValidCnic)
    /\ resp.status = 200
    /\ resp.body.isValid

\* C10: for an Education, Agriculture or Dairy application the response does
\* not depend on the age field: the same application with any other age,
\* missing or not convertible to an integer included, gets the same response.
C10_AgeIrrelevant ==
    (InValidate /\ req.body.loanType \in {Str(Education), Str(Agriculture), Str(Dairy)})
    => \A a \in AgeValues : validate([req.body EXCEPT !.age = a]) = resp

(***************************************************************************)
(* Properties of /api/calculate and calculate_emi.                         *)
(***************************************************************************)
Coerced(data) ==
    [principal |-> FloatOf(Get(data, "loanAmount", Num(PyInt(0)))),
     annual_rate |-> FloatOf(Get(data, "interestRate", Num(PyInt(0)))),
     tenure |-> IntOf(Get(data, "loanTenure", Num(PyInt(0))))]

Coercible(data) ==
    Coerced(data).principal.ok /\ Coerced(data).annual_rate.ok
        /\ Coerced(data).tenure.ok

Principal == Coerced(req.body).principal.v
AnnualRate == Coerced(req.body).annual_rate.v
Tenure == Coerced(req.body).tenure.v

\* principal > 0, rate in [0, 100] and tenure > 0.
InDomain ==
    /\ Coercible(req.body)
    /\ Gt(Principal, PyInt(0))
    /\ Le(PyInt(0), AnnualRate) /\ Le(AnnualRate, PyInt(100))
    /\ Gt(Tenure, PyInt(0))

Rejected(msg) == resp.status = 400 /\ resp.body = [error |-> msg] /\ emiCalls = 0

FullResult ==
    /\ resp.status = 200
    /\ DOMAIN resp.body =
         {"monthlyEMI", "totalInterest", "totalPayable", "schedule", "tenure"}

\* The response the bounds decide, and `served` where none is violated.
BoundsThen(served) ==
    IF Le(Principal, PyInt(0)) THEN Rejected(AmountError)
    ELSE IF Lt(AnnualRate, PyInt(0)) \/ Gt(AnnualRate, PyInt(100))
    THEN Rejected(RateError)
    ELSE IF Le(Tenure, PyInt(0)) THEN Rejected(TenureError)
    ELSE served

\* C5 as stated: a request whose fields coerce to numbers gets status 400
\* with only an error message when a bound is violated (the first of amount,
\* rate, tenure; calculate_emi not called), and otherwise status 200 with the
\* full result.
C5_BoundsOrResult ==
    (InCalculate /\ Coercible(req.body)) => BoundsThen(FullResult)

\* An arithmetic exception of calculate_emi, answered with status 400.
RaisedArithmetic ==
    /\ resp.status = 400
    /\ resp.body \in {[error |-> ExcMsg(MathRange)], [error |-> ExcMsg(IntTooLarge)],
                      [error |-> ExcMsg(DivisionByZero)]}

\* C5, amended: where no bound is violated calculate_emi is called once, and
\* the response is the full result with status 200, or, when calculate_emi
\* raises an arithmetic exception, status 400 with only the error message;
\* it raises at a positive rate only, or on a tenure beyond every float.
C5_BoundsOrResultOrRaise ==
    (InCalculate /\ Coercible(req.body))
    => BoundsThen(/\ emiCalls = 1
                  /\ \/ FullResult
                     \/ /\ RaisedArithmetic
                        /\ Gt(AnnualRate, PyInt(0)) \/ ~FloatOfInt(Tenure).ok)

\* No bound is violated, and math.pow overflows on a tenure of 9000 months.
C5_Witness ==
    /\ InCalculate
    /\ req.body = EmiRequest(JsonInt(100), JsonInt(100), JsonInt(9000))
    /\ resp = [status |-> 400, body |-> [error |-> ExcMsg(MathRange)]]
    /\ emiCalls = 1

Served == InCalculate /\ resp.status = 200
Schedule == resp.body.schedule

\* C6: the schedule has min(tenure, 12) rows, row i is month i, and the
\* tenure returned is the whole tenure.
C6_ScheduleShape ==
    Served =>
        /\ Len(Schedule) = (IF Le(PyInt(12), Tenure) THEN 12 ELSE IntToNat(Tenure))
        /\ \A i \in 1..Len(Schedule) : Schedule[i].month = i
        /\ resp.body.tenure = Tenure

\* A tenure beyond 12 months, cut to 12 rows.
C6_Witness ==
    /\ Served
    /\ Tenure = PyInt(14)
    /\ Len(Schedule) = 12
    /\ Schedule[12].month = 12
    /\ resp.body.tenure = PyInt(14)

BalancesFall ==
    /\ \A i \in 1..Len(Schedule) : Le(PyInt(0), Schedule[i].balance)
    /\ \A i \in 2..Len(Schedule) : Le(Schedule[i].balance, Schedule[i - 1].balance)

\* C7 as stated: the balances are >= 0 and non-increasing, and the first is
\* at most the principal.
C7_BalanceBelowPrincipal ==
    (Served /\ InDomain) => /\ BalancesFall
                            /\ Le(Schedule[1].balance, Principal)

\* C7, amended: the balances are >= 0 and non-increasing, and the first is
\* at most the principal rounded to 2 decimals.
C7_BalanceBelowRoundedPrincipal ==
    (Served /\ InDomain) => /\ BalancesFall
                            /\ Le(Schedule[1].balance, round2(Principal))

\* A compound schedule whose balance falls to 0 in its last row.
C7_Witness ==
    /\ Served /\ InDomain
    /\ Gt(AnnualRate, PyInt(0))
    /\ Len(Schedule) = 3
    /\ Lt(Schedule[2].balance, Schedule[1].balance)
    /\ Lt(Schedule[1].balance, Principal)
    /\ Eq(Schedule[3].balance, PyInt(0))

\* The distance, in cents, of totalPayable from monthlyEMI * tenure, both
\* fields read as the amounts of 2 decimals they are.
TotalGap ==
    LET total == Cents(resp.body.totalPayable)
        instalments == BMul(Cents(resp.body.monthlyEMI), Tenure.m)
    IN  IF BCmp(total, instalments) >= 0 THEN BSub(total, instalments)
        ELSE BSub(instalments, total)

\* C8: for principal > 0, rate in [0, 100] and tenure > 0, the totalPayable
\* returned is within 0.01 of the monthlyEMI returned times the tenure
\* (stated of the finite results).
C8_TotalWithinCent ==
    (Served /\ InDomain /\ resp.body.totalPayable.k = "fin"
       /\ resp.body.monthlyEMI.k = "fin")
    => BCmp(TotalGap, <<1>>) <= 0

\* C9: at rate 0 the linear branch answers: monthlyEMI is principal / tenure
\* rounded, totalInterest is 0, every row has interest 0 and principal equal
\* to emi, and a schedule of the whole tenure ends at balance 0.
C9_ZeroRate ==
    (InCalculate /\ InDomain /\ Eq(AnnualRate, PyInt(0)))
    => /\ resp.status = 200
       /\ resp.body.monthlyEMI
            = round2(FloatDiv(Principal, FloatOfInt(Tenure).v).v)
       /\ Eq(resp.body.totalInterest, PyInt(0))
       /\ \A i \in 1..Len(Schedule) :
            Eq(Schedule[i].interest, PyInt(0))
                /\ Schedule[i].principal = Schedule[i].emi
       /\ Le(Tenure, PyInt(12)) => Eq(Schedule[Len(Schedule)].balance, PyInt(0))
====
